---------------------------- MODULE Spec2Model ----------------------------
(***************************************************************************)
(* Model of the inline-markup decoration plugin: the selection guard, the  *)
(* pattern rules, the two live-mode scanners (one global scan per rule,    *)
(* and the older position-by-position scan) and the static post-processor. *)
(*                                                                         *)
(* A string is a sequence of one-character strings; offsets are 0-based as *)
(* in the source, so the character at offset i of s is s[i + 1].           *)
(***************************************************************************)
EXTENDS Integers, Sequences, FiniteSets, TLC

(***************************************************************************)
(* Bounds of the model.                                                    *)
(***************************************************************************)
\* longest enumerated document
MaxLen == 3
\* most selection ranges handed to outsideSelections on its own
MaxSels == 2
\* most decorations one scan may collect before the model stops it
MaxDs == 5
\* largest trim count (EdgeInserter.rmv) tried on getReplacement
MaxTrim == 3

(***************************************************************************)
(* Characters.                                                             *)
(***************************************************************************)
LowerLetters ==
    {"a","b","c","d","e","f","g","h","i","j","k","l","m",
     "n","o","p","q","r","s","t","u","v","w","x","y","z"}

UpperLetters ==
    {"A","B","C","D","E","F","G","H","I","J","K","L","M",
     "N","O","P","Q","R","S","T","U","V","W","X","Y","Z"}

Digits == {"0","1","2","3","4","5","6","7","8","9"}

\* isLetter(str): one character whose upper case lies in A..Z
isLetter(c) == c \in LowerLetters \cup UpperLetters

\* isWhitespace(str): str.trim() === ""
isWhitespace(c) == c \in {" ", "\n", "\t"}

\* isPunctuation(str) of the position scanner's file
isPunctuation(c) == c \in {".", ",", "(", ")", "-", "\"", "!", "?"}

\* what the regular expression atom . matches; [^\n] coincides with it on
\* the characters of the model
NotNewline(c) == c # "\n"

\* \w of a regular expression
isWordChar(c) == c \in LowerLetters \cup UpperLetters \cup Digits \cup {"_"}

(***************************************************************************)
(* JavaScript string primitives.                                           *)
(***************************************************************************)
Min(a, b) == IF a <= b THEN a ELSE b
Max(a, b) == IF a >= b THEN a ELSE b

\* s[i]: the character at offset i, or undefined outside the string
At(s, i) == IF 0 <= i /\ i < Len(s) THEN s[i + 1] ELSE "undefined"

\* the half-open slice [a, b) of s for 0 <= a and b <= Len(s); empty if a >= b
Slice(s, a, b) == SubSeq(s, a + 1, b)

\* String.prototype.substring(start, end): both arguments are clamped into
\* 0..length and swapped when start > end
Substring(s, start, end) ==
    LET a == Max(0, Min(start, Len(s)))
        b == Max(0, Min(end, Len(s)))
    IN  Slice(s, Min(a, b), Max(a, b))

\* str.substring(i).startsWith(p)
StartsWithAt(s, i, p) ==
    /\ i + Len(p) <= Len(s)
    /\ Slice(s, i, i + Len(p)) = p


(***************************************************************************)
(* Regular expressions.  A pattern is a record [kind, a, b]; the kinds are *)
(* the shapes of the expressions the rule lists are built from:            *)
(*   lit     the literal a                    /---/  /--/  /TODO/          *)
(*   lazy    a .+? b  (b one character)       /-[^\n]+?-/  /red\(.+?\)/    *)
(*   star    a*       (a one character)       an expression that can match *)
(*                                            the empty string             *)
(*   var     /(?<= |^)([b-zB-HJ-Z])(?=[ ,.'\n])/                           *)
(*   esc     /\\[a-z]+?(?=[ \n\t])/                                        *)
(*   cmd     /\\.+?{.+?}/                                                  *)
(*   entity  /&\w+;/                                                       *)
(***************************************************************************)
Lit(a) == [kind |-> "lit", a |-> a, b |-> <<>>]
Lazy(a, b) == [kind |-> "lazy", a |-> a, b |-> b]
Star(c) == [kind |-> "star", a |-> <<c>>, b |-> <<>>]
VarPat == [kind |-> "var", a |-> <<>>, b |-> <<>>]
EscPat == [kind |-> "esc", a |-> <<>>, b |-> <<>>]
CmdPat == [kind |-> "cmd", a |-> <<>>, b |-> <<>>]
EntityPat == [kind |-> "entity", a |-> <<>>, b |-> <<>>]

MinOf(S) == CHOOSE x \in S : \A y \in S : x <= y

\* every character of s at offsets a .. b-1 is matched by .
NoNewline(s, a, b) == \A k \in a .. (b - 1) : NotNewline(At(s, k))

\* the first offset >= i of s that holds no lower-case letter (Len(s) if none)
LowerRunEnd(s, i) ==
    MinOf({j \in i .. Len(s) : j = Len(s) \/ At(s, j) \notin LowerLetters})

\* the first offset >= i of s that holds no word character (Len(s) if none)
WordRunEnd(s, i) ==
    MinOf({j \in i .. Len(s) : j = Len(s) \/ ~isWordChar(At(s, j))})

\* the first offset >= i of s that does not hold c (Len(s) if none)
CharRunEnd(s, i, c) ==
    MinOf({j \in i .. Len(s) : j = Len(s) \/ At(s, j) # c})

\* offsets of the closing character of a lazy a .+? b match starting at i
LazyEnds(s, i, a, b) ==
    {j \in (i + Len(a) + 1) .. (Len(s) - 1) :
        /\ At(s, j) = b[1]
        /\ NoNewline(s, i + Len(a), j)}

\* offsets of the { of a \\.+?{.+?} match starting at i
CmdOpens(s, i) ==
    {j \in (i + 2) .. (Len(s) - 1) :
        /\ At(s, j) = "{"
        /\ NoNewline(s, i + 1, j)
        /\ LazyEnds(s, j, <<"{">>, <<"}">>) # {}}

\* The length of the match of pattern p that starts exactly at offset i of
\* s, as the backtracking matcher finds it, or -1 when there is none.
MatchLen(p, s, i) ==
    CASE p.kind = "lit" ->
            IF StartsWithAt(s, i, p.a) THEN Len(p.a) ELSE -1
      [] p.kind = "lazy" ->
            IF StartsWithAt(s, i, p.a) /\ LazyEnds(s, i, p.a, p.b) # {}
            THEN MinOf(LazyEnds(s, i, p.a, p.b)) + 1 - i
            ELSE -1
      [] p.kind = "star" -> CharRunEnd(s, i, p.a[1]) - i
      [] p.kind = "var" ->
            IF /\ At(s, i) \in (LowerLetters \cup UpperLetters) \ {"a", "A", "I"}
               /\ (i = 0 \/ At(s, i - 1) = " ")
               /\ At(s, i + 1) \in {" ", ",", ".", "'", "\n"}
            THEN 1
            ELSE -1
      [] p.kind = "esc" ->
            IF /\ At(s, i) = "\\"
               /\ LowerRunEnd(s, i + 1) > i + 1
               /\ At(s, LowerRunEnd(s, i + 1)) \in {" ", "\n", "\t"}
            THEN LowerRunEnd(s, i + 1) - i
            ELSE -1
      [] p.kind = "cmd" ->
            IF At(s, i) = "\\" /\ CmdOpens(s, i) # {}
            THEN MinOf(LazyEnds(s, MinOf(CmdOpens(s, i)), <<"{">>, <<"}">>)) + 1 - i
            ELSE -1
      [] p.kind = "entity" ->
            IF /\ At(s, i) = "&"
               /\ WordRunEnd(s, i + 1) > i + 1
               /\ At(s, WordRunEnd(s, i + 1)) = ";"
            THEN WordRunEnd(s, i + 1) + 1 - i
            ELSE -1

NoMatch == [index |-> -1, text |-> <<>>]

\* RegExp.prototype.exec of a global expression whose lastIndex is `last`:
\* the leftmost match at an offset >= last (null when there is none), as
\* the result's index and result[0]
Exec(p, s, last) ==
    LET starts == {j \in last .. Len(s) : MatchLen(p, s, j) >= 0}
    IN  IF starts = {} THEN NoMatch
        ELSE LET j == MinOf(starts)
             IN  [index |-> j, text |-> Slice(s, j, j + MatchLen(p, s, j))]

\* lastIndex after exec returned result r: the end of the match, which is
\* where the match began when the match is empty
LastIndexAfter(r) == r.index + Len(r.text)

(***************************************************************************)
(* SelectionGuard.                                                         *)
(***************************************************************************)
\* outsideSelections with its second test reading r.to < right
RECURSIVE outsideSelectionsStrict(_, _, _)
outsideSelectionsStrict(sr, left, right) ==
    IF sr = <<>> THEN TRUE
    ELSE LET r == Head(sr)
         IN  IF r.from >= left /\ r.to <= right THEN FALSE
             ELSE IF r.to >= left /\ r.to < right THEN FALSE
             ELSE outsideSelectionsStrict(Tail(sr), left, right)

\* the loop of outsideSelections over the selection ranges, first to last
RECURSIVE outsideSelectionsLoop(_, _, _)
outsideSelectionsLoop(sr, left, right) ==
    IF sr = <<>> THEN TRUE
    ELSE LET r == Head(sr)
         IN  IF r.from >= left /\ r.to <= right THEN FALSE
             ELSE IF r.to >= left /\ r.to <= right THEN FALSE
             ELSE outsideSelectionsLoop(Tail(sr), left, right)

outsideSelections(sr, left, right) == outsideSelectionsLoop(sr, left, right)

(***************************************************************************)
(* Widgets and decorations.                                                *)
(***************************************************************************)
\* new HTMLWidget(content, elem, attrs); attrs is a sequence of <<key, value>>
HTMLWidget(content, elem, attrs) ==
    [cls |-> "HTMLWidget", content |-> content, elem |-> elem, attrs |-> attrs]

\* new LatexWidget(content)
LatexWidget(content) ==
    [cls |-> "LatexWidget", content |-> content, elem |-> <<>>, attrs |-> <<>>]

NoWidget == [cls |-> "none", content |-> <<>>, elem |-> <<>>, attrs |-> <<>>]

\* Decoration.replace({widget}).range(from, to).  `by` and `text` are
\* bookkeeping: the place of the rule in the rule list and the text the rule
\* matched (result[0]).
Replace(widget, from, to, by, text) ==
    [kind |-> "replace", from |-> from, to |-> to, widget |-> widget,
     attributes |-> <<>>, by |-> by, text |-> text]

\* Decoration.mark({attributes}).range(from, to)
Mark(attributes, from, to, by, text) ==
    [kind |-> "mark", from |-> from, to |-> to, widget |-> NoWidget,
     attributes |-> attributes, by |-> by, text |-> text]

\* getDecorator's undefined
None == [kind |-> "none", from |-> -1, to |-> -1, widget |-> NoWidget,
         attributes |-> <<>>, by |-> 0, text |-> <<>>]

(***************************************************************************)
(* Text constants of the rule lists.                                       *)
(***************************************************************************)
T_span == <<"s","p","a","n">>
T_u == <<"u">>
T_mdash == <<"&","m","d","a","s","h",";">>
T_ndash == <<"&","n","d","a","s","h",";">>
T_TODO == <<"T","O","D","O">>
T_style == <<"s","t","y","l","e">>
T_red == <<"c","o","l","o","r",":"," ","r","e","d",";">>
T_green == <<"c","o","l","o","r",":"," ","g","r","e","e","n",";">>
T_blue == <<"c","o","l","o","r",":"," ","b","l","u","e",";">>

(***************************************************************************)
(* Rules of the per-rule scanner.  A rule is a record                      *)
(*   [cls, match, attributes, elem, left, right, keepMatch, to]            *)
(* with the fields of a class it does not have left empty.                 *)
(***************************************************************************)
\* EdgeInserter {txt, rmv}
Edge(txt, rmv) == [txt |-> txt, rmv |-> rmv]

\* left || { txt: "", rmv: 0 }
NoEdge == Edge(<<>>, 0)

\* new GeneralPatternMatcher(match, attributes, elem, left, right, keepMatch)
GeneralPatternMatcher(match, attributes, elem, left, right, keepMatch) ==
    [cls |-> "GeneralPatternMatcher", match |-> match,
     attributes |-> attributes, elem |-> elem, left |-> left,
     right |-> right, keepMatch |-> keepMatch, to |-> <<>>]

\* new ReplacementPattern(from, to) of the per-rule scanner (from a RegExp)
ReplacementPattern(from, to) ==
    [cls |-> "ReplacementPattern", match |-> from, attributes |-> <<>>,
     elem |-> <<>>, left |-> NoEdge, right |-> NoEdge, keepMatch |-> FALSE,
     to |-> to]

\* new Texify(match)
Texify(match) ==
    [cls |-> "Texify", match |-> match, attributes |-> <<>>, elem |-> <<>>,
     left |-> NoEdge, right |-> NoEdge, keepMatch |-> FALSE, to |-> <<>>]

\* getReplacement that keeps the match whatever keepMatch says
getReplacementKeeping(rule, match) ==
    rule.left.txt
        \o Substring(match, rule.left.rmv, Len(match) - rule.right.rmv)
        \o rule.right.txt

\* GeneralPatternMatcher.getReplacement(match)
getReplacement(rule, match) ==
    LET middleText ==
            IF rule.keepMatch
            THEN Substring(match, rule.left.rmv, Len(match) - rule.right.rmv)
            ELSE <<>>
    IN  rule.left.txt \o middleText \o rule.right.txt

\* GeneralPatternMatcher.getWidget(replacement_text)
getWidget(rule, replacement_text) ==
    HTMLWidget(replacement_text,
               IF rule.elem = <<>> THEN T_span ELSE rule.elem,
               rule.attributes)

\* the widget a rule of the per-rule scanner attaches to a match
WidgetFor(rule, text) ==
    CASE rule.cls = "GeneralPatternMatcher" ->
            getWidget(rule, getReplacement(rule, text))
      [] rule.cls = "ReplacementPattern" -> HTMLWidget(rule.to, T_span, <<>>)
      [] rule.cls = "Texify" -> LatexWidget(text)

(***************************************************************************)
(* Rules of the position-by-position scanner: getDecorator(state, doc,     *)
(* index) gives one decoration or undefined.  The same record shape is     *)
(* used; ReplacementPattern keeps its literal `from` in match.a.           *)
(***************************************************************************)
MaxOf(S) == CHOOSE x \in S : \A y \in S : x >= y

UnderlinePattern ==
    [cls |-> "UnderlinePattern", match |-> Lit(<<>>), attributes |-> <<>>,
     elem |-> <<>>, left |-> NoEdge, right |-> NoEdge, keepMatch |-> FALSE,
     to |-> <<>>]

MathVariables ==
    [cls |-> "MathVariables", match |-> Lit(<<>>), attributes |-> <<>>,
     elem |-> <<>>, left |-> NoEdge, right |-> NoEdge, keepMatch |-> FALSE,
     to |-> <<>>]

LatexEscapes ==
    [cls |-> "LatexEscapes", match |-> Lit(<<>>), attributes |-> <<>>,
     elem |-> <<>>, left |-> NoEdge, right |-> NoEdge, keepMatch |-> FALSE,
     to |-> <<>>]

\* new Formatter(pattern, attributes, element): the constructor anchors the
\* pattern with ^, so it is matched at offset 0 of doc.substring(index);
\* element undefined is the empty elem
Formatter(pattern, attributes, element) ==
    [cls |-> "Formatter", match |-> pattern, attributes |-> attributes,
     elem |-> element, left |-> NoEdge, right |-> NoEdge,
     keepMatch |-> FALSE, to |-> <<>>]

\* new ReplacementPattern(from, to) of the position scanner (from a string)
ReplacementString(from, to) ==
    [cls |-> "ReplacementString", match |-> Lit(from), attributes |-> <<>>,
     elem |-> <<>>, left |-> NoEdge, right |-> NoEdge, keepMatch |-> FALSE,
     to |-> to]

\* UnderlinePattern.getDecorator
UnderlinePattern_getDecorator(sr, doc, index, by) ==
    LET left == index
        right == MinOf({j \in (index + 1) .. Len(doc) :
                          \/ j = Len(doc)
                          \/ At(doc, j) = "\n"
                          \/ At(doc, j) = "-"})
    IN  IF At(doc, index) # "-" THEN None
        ELSE IF index > 0 /\ ~isWhitespace(At(doc, index - 1)) THEN None
        ELSE IF index + 1 >= Len(doc) \/ ~isLetter(At(doc, index + 1)) THEN None
        ELSE IF At(doc, right) # "-" THEN None
        ELSE IF left + 1 >= right THEN None
        ELSE IF isWhitespace(At(doc, right - 1)) THEN None
        ELSE IF /\ right + 1 < Len(doc)
                /\ ~isWhitespace(At(doc, right + 1))
                /\ ~isPunctuation(At(doc, right + 1)) THEN None
        ELSE IF ~outsideSelections(sr, left, right + 1) THEN None
        ELSE Replace(HTMLWidget(Substring(doc, left + 1, right), T_u, <<>>),
                     left, right + 1, by, Substring(doc, left, right + 1))

\* Formatter.getDecorator whose pattern is searched for anywhere ahead of
\* index
Formatter_getDecoratorUnanchored(rule, sr, doc, index, by) ==
    LET r == Exec(rule.match, Substring(doc, index, Len(doc)), 0)
        match == r.text
    IN  IF r = NoMatch THEN None
        ELSE IF rule.elem = <<>>
             THEN Mark(rule.attributes, index, index + Len(match), by, match)
             ELSE Replace(HTMLWidget(match, rule.elem, <<>>),
                          index, index + Len(match), by, match)

\* Formatter.getDecorator
Formatter_getDecorator(rule, sr, doc, index, by) ==
    LET n == MatchLen(rule.match, Substring(doc, index, Len(doc)), 0)
        match == Substring(doc, index, index + n)
    IN  IF n < 0 THEN None
        ELSE IF rule.elem = <<>>
             THEN Mark(rule.attributes, index, index + Len(match), by, match)
             ELSE Replace(HTMLWidget(match, rule.elem, <<>>),
                          index, index + Len(match), by, match)

\* ReplacementPattern.getDecorator of the position scanner
ReplacementPattern_getDecorator(rule, sr, doc, index, by) ==
    LET from == rule.match.a
    IN  IF ~StartsWithAt(doc, index, from) THEN None
        ELSE IF ~outsideSelections(sr, index, index + Len(from)) THEN None
        ELSE Replace(HTMLWidget(rule.to, T_span, <<>>),
                     index, index + Len(from), by, from)

\* MathVariables.getDecorator with doc.length in place of doc.length - 1 at
\* the end of the document
MathVariables_getDecoratorPastEnd(sr, doc, index, by) ==
    LET l0 == MaxOf({j \in -1 .. (index - 1) :
                       \/ j = -1
                       \/ isLetter(At(doc, j))
                       \/ isWhitespace(At(doc, j))})
        r0 == MinOf({j \in (index + 1) .. Len(doc) :
                       \/ j = Len(doc)
                       \/ isLetter(At(doc, j))
                       \/ isWhitespace(At(doc, j))})
        left == IF l0 < 0 THEN 0 ELSE l0 + 1
        right == IF r0 >= Len(doc) THEN Len(doc) ELSE r0 - 1
    IN  IF ~isLetter(At(doc, index)) THEN None
        ELSE IF At(doc, index) \in {"a", "A", "i", "I"} THEN None
        ELSE IF l0 >= 0 /\ ~isWhitespace(At(doc, l0)) THEN None
        ELSE IF r0 < Len(doc) /\ ~isWhitespace(At(doc, r0)) THEN None
        ELSE IF ~outsideSelections(sr, left, right + 1) THEN None
        ELSE Replace(LatexWidget(Substring(doc, left, right + 1)),
                     left, right + 1, by, Substring(doc, left, right + 1))

\* MathVariables.getDecorator
MathVariables_getDecorator(sr, doc, index, by) ==
    LET l0 == MaxOf({j \in -1 .. (index - 1) :
                       \/ j = -1
                       \/ isLetter(At(doc, j))
                       \/ isWhitespace(At(doc, j))})
        r0 == MinOf({j \in (index + 1) .. Len(doc) :
                       \/ j = Len(doc)
                       \/ isLetter(At(doc, j))
                       \/ isWhitespace(At(doc, j))})
        left == IF l0 < 0 THEN 0 ELSE l0 + 1
        right == IF r0 >= Len(doc) THEN Len(doc) - 1 ELSE r0 - 1
    IN  IF ~isLetter(At(doc, index)) THEN None
        ELSE IF At(doc, index) \in {"a", "A", "i", "I"} THEN None
        ELSE IF l0 >= 0 /\ ~isWhitespace(At(doc, l0)) THEN None
        ELSE IF r0 < Len(doc) /\ ~isWhitespace(At(doc, r0)) THEN None
        ELSE IF ~outsideSelections(sr, left, right + 1) THEN None
        ELSE Replace(LatexWidget(Substring(doc, left, right + 1)),
                     left, right + 1, by, Substring(doc, left, right + 1))

\* LatexEscapes.getDecorator
LatexEscapes_getDecorator(sr, doc, index, by) ==
    LET end == MinOf({j \in (index + 1) .. Len(doc) :
                        j = Len(doc) \/ ~isLetter(At(doc, j))})
        escapeSequence == Substring(doc, index, end)
    IN  IF At(doc, index) # "\\" THEN None
        ELSE IF index + 1 >= end THEN None
        ELSE IF ~outsideSelections(sr, index, end) THEN None
        ELSE Replace(LatexWidget(escapeSequence),
                     index, index + Len(escapeSequence), by, escapeSequence)

\* r.getDecorator(update.state, doc, i) by the class of r
getDecorator(rule, sr, doc, index, by) ==
    CASE rule.cls = "UnderlinePattern" ->
            UnderlinePattern_getDecorator(sr, doc, index, by)
      [] rule.cls = "Formatter" ->
            Formatter_getDecorator(rule, sr, doc, index, by)
      [] rule.cls = "ReplacementString" ->
            ReplacementPattern_getDecorator(rule, sr, doc, index, by)
      [] rule.cls = "MathVariables" ->
            MathVariables_getDecorator(sr, doc, index, by)
      [] rule.cls = "LatexEscapes" ->
            LatexEscapes_getDecorator(sr, doc, index, by)

\* the inner loop of the position scanner at position i: the decoration of
\* the first rule of the list that gives one, or None
RECURSIVE FirstDecorator(_, _, _, _, _)
FirstDecorator(rules, k, sr, doc, index) ==
    IF k > Len(rules) THEN None
    ELSE LET d == getDecorator(rules[k], sr, doc, index, k)
         IN  IF d # None THEN d
             ELSE FirstDecorator(rules, k + 1, sr, doc, index)

(***************************************************************************)
(* The configured rule lists.                                              *)
(***************************************************************************)
MdashRule ==
    GeneralPatternMatcher(Lit(<<"-","-","-">>), <<>>, <<>>,
                          Edge(T_mdash, 1), NoEdge, FALSE)
NdashRule ==
    GeneralPatternMatcher(Lit(<<"-","-">>), <<>>, <<>>,
                          Edge(T_ndash, 1), NoEdge, FALSE)
UnderlineRule ==
    GeneralPatternMatcher(Lazy(<<"-">>, <<"-">>), <<>>, T_u,
                          Edge(<<>>, 1), Edge(<<>>, 1), TRUE)
TodoRule ==
    GeneralPatternMatcher(Lit(T_TODO), << <<T_style, T_red>> >>, <<>>,
                          NoEdge, NoEdge, TRUE)
EntityRule ==
    GeneralPatternMatcher(EntityPat, <<>>, <<>>, NoEdge, NoEdge, TRUE)
RedRule ==
    GeneralPatternMatcher(Lazy(<<"r","e","d","(">>, <<")">>),
                          << <<T_style, T_red>> >>, <<>>,
                          Edge(<<>>, 4), Edge(<<>>, 1), TRUE)
GreenRule ==
    GeneralPatternMatcher(Lazy(<<"g","r","e","e","n","(">>, <<")">>),
                          << <<T_style, T_green>> >>, <<>>,
                          Edge(<<>>, 6), Edge(<<>>, 1), TRUE)
BlueRule ==
    GeneralPatternMatcher(Lazy(<<"b","l","u","e","(">>, <<")">>),
                          << <<T_style, T_blue>> >>, <<>>,
                          Edge(<<>>, 5), Edge(<<>>, 1), TRUE)

\* DashExpansionPlugin.replacements of the per-rule scanner
PerRuleReplacements ==
    <<MdashRule, NdashRule, Texify(VarPat), Texify(EscPat), Texify(CmdPat),
      UnderlineRule, TodoRule, EntityRule, RedRule, GreenRule, BlueRule>>

\* DashExpansionPlugin.replacements of the position scanner.  Its last
\* entry, ColourPattern, is left out: no file defines a getDecorator for it.
PositionReplacements ==
    <<ReplacementString(<<"-","-">>, T_mdash), MathVariables, LatexEscapes,
      UnderlinePattern,
      Formatter(Lit(T_TODO), << <<T_style, T_red>> >>, <<>>),
      Formatter(EntityPat, <<>>, T_span)>>

\* Rules outside the configured lists that the classes accept as well: a
\* pattern that can match the empty string, and the literal replacement
StarRule ==
    GeneralPatternMatcher(Star("x"), <<>>, <<>>, NoEdge, NoEdge, TRUE)
LiteralRule == ReplacementPattern(Lit(<<"-","-">>), T_mdash)

(***************************************************************************)
(* Inputs.                                                                 *)
(***************************************************************************)
Alphabet == {"-", "x", " "}

\* all strings over Alphabet of length at most n
Strings(n) == UNION {[1 .. k -> Alphabet] : k \in 0 .. n}

D_hello == <<"a"," ","-","h","e","l","l","o","-"," ","b">>
D_red == <<"r","e","d","(","x","+","1",")">>
D_redLine == D_red \o <<"\n">>
D_dots == <<".","-","-",".","x"," ">>
D_amp == <<"a"," ","&","l","t",";">>
D_dashes == <<"-","-","-","-"," ">>
D_three == <<"-","-","-"," ">>

\* {from, to} with from <= to inside a document of length n
Intervals(n) == {r \in [from : 0 .. n, to : 0 .. n] : r.from <= r.to}

\* state.selection.ranges over a document of length n: an editor state
\* always holds a selection range, a cursor when from = to
SelectionLists(n) == {<<r>> : r \in Intervals(n)}

\* visibleRanges: one range of the document, or the whole document in two
\* ranges with a hidden character between them
RangeLists(n) ==
    {<<r>> : r \in Intervals(n)} \cup
    {<<[from |-> 0, to |-> k], [from |-> k + 1, to |-> n]>> : k \in 0 .. (n - 1)}

PerRuleLists ==
    {PerRuleReplacements, <<StarRule>>, <<LiteralRule, Texify(VarPat)>>,
     <<UnderlineRule>>, <<RedRule>>}

PositionLists ==
    {PositionReplacements,
     <<Formatter(Lit(<<"-">>), <<>>, <<>>), MathVariables>>}

RuleLists(d) == IF d = "perRule" THEN PerRuleLists ELSE PositionLists

(***************************************************************************)
(* State.                                                                  *)
(***************************************************************************)
VARIABLES
    discipline,     \* which update() runs: "perRule" or "position"
    doc,            \* update.state.doc.toString()
    sels,           \* update.state.selection.ranges
    visibleRanges,  \* update.view.visibleRanges
    replacements,   \* DashExpansionPlugin.replacements
    pc,             \* "scan", then "done" or "threw"
    rIdx,           \* the visible range being scanned (1-based)
    kIdx,           \* the rule being run (1-based)
    lastIndex,      \* lastIndex of the rule's global RegExp
    i,              \* the position scanner's loop variable
    ds,             \* the decorations collected so far
    decorations     \* plugin.decorations

\* one call of a pure function on its own
VARIABLES
    fnPc,           \* "idle", "start", then "guarded", "replaced", "decorated"
    fnSr,           \* outsideSelections: sr
    fnLeft,         \* outsideSelections: left
    fnRight,        \* outsideSelections: right
    fnRule,         \* getReplacement: the GeneralPatternMatcher
    fnMatch,        \* getReplacement: match
    fnOutside,      \* what outsideSelections returned
    fnText,         \* what getReplacement returned
    fnDec           \* what getDecorator returned

\* the post-processor of the reading view on one element
VARIABLES
    original,       \* element.innerHTML when the post-processor is called
    innerHTML,      \* element.innerHTML
    applied,        \* bookkeeping: per rule run, what it read and wrote
    matches,        \* Texify: the matches replaceAll found
    mIdx,           \* Texify: the match whose callback runs (1-based)
    out,            \* Texify: what the callbacks returned so far
    pending         \* calls of renderMath not yet followed by a call of
                    \* finishRenderMath

staticVars == <<original, innerHTML, applied, matches, mIdx, out, pending>>

liveVars == <<discipline, doc, sels, visibleRanges, replacements, pc, rIdx,
              kIdx, lastIndex, i, ds, decorations>>

fnVars == <<fnPc, fnSr, fnLeft, fnRight, fnRule, fnMatch, fnOutside, fnText,
            fnDec>>

vars == <<liveVars, fnVars, staticVars>>

inputs == <<discipline, doc, sels, visibleRanges, replacements>>

(***************************************************************************)
(* Decoration.set.                                                         *)
(***************************************************************************)
\* the startSide of a decoration: a replace decoration sorts before a mark
\* decoration that starts at the same offset
StartSide(d) == IF d.kind = "mark" THEN 1 ELSE 0

\* cmpRange(a, b) <= 0: a may stand before b
NotAfter(a, b) ==
    a.from < b.from \/ (a.from = b.from /\ StartSide(a) <= StartSide(b))

\* the ranges are in the order a RangeSetBuilder accepts
Ordered(seq) ==
    \A k \in 1 .. (Len(seq) - 1) : NotAfter(seq[k], seq[k + 1])

\* d put into the ordered sequence seq behind everything that is not after it
InsertStable(seq, d) ==
    LET n == Cardinality({k \in 1 .. Len(seq) : NotAfter(seq[k], d)})
    IN  SubSeq(seq, 1, n) \o <<d>> \o SubSeq(seq, n + 1, Len(seq))

\* the stable sort of Decoration.set(ds, true)
RECURSIVE SortRanges(_)
SortRanges(seq) ==
    IF seq = <<>> THEN <<>>
    ELSE InsertStable(SortRanges(SubSeq(seq, 1, Len(seq) - 1)),
                      seq[Len(seq)])

\* Decoration.set(ds, true) of the per-rule scanner
SetSorted(seq) == SortRanges(seq)

(***************************************************************************)
(* Live mode.                                                              *)
(***************************************************************************)
LiveInputs(ds0) ==
    /\ discipline \in {"perRule", "position"}
    /\ doc \in ds0
    /\ sels \in SelectionLists(Len(doc))
    /\ visibleRanges \in RangeLists(Len(doc))
    /\ replacements \in RuleLists(discipline)

\* the documents of the scenarios: the cursor at the end of the document;
\* the whole document visible, or all but its last character
ScenarioInputs ==
    /\ discipline \in {"perRule", "position"}
    /\ doc \in {D_hello, D_redLine, D_dots, D_amp, D_dashes, D_three}
    /\ sels = <<[from |-> Len(doc), to |-> Len(doc)]>>
    /\ visibleRanges \in {<<[from |-> 0, to |-> Len(doc)]>>,
                          <<[from |-> 0, to |-> Len(doc) - 1]>>}
    /\ replacements \in RuleLists(discipline)

\* a document with two occurrences of "--", the cursor or a selection
\* anywhere in it, the whole document visible
SelectionInputs ==
    /\ discipline \in {"perRule", "position"}
    /\ doc = D_dashes
    /\ sels \in SelectionLists(Len(doc))
    /\ visibleRanges = <<[from |-> 0, to |-> Len(doc)]>>
    /\ replacements \in RuleLists(discipline)

FnIdle ==
    /\ fnPc = "idle"
    /\ fnSr = <<>>
    /\ fnLeft = 0
    /\ fnRight = 0
    /\ fnRule = StarRule
    /\ fnMatch = <<>>
    /\ fnOutside = FALSE
    /\ fnText = <<>>
    /\ fnDec = None

StaticIdle ==
    /\ original = <<>>
    /\ innerHTML = <<>>
    /\ applied = <<>>
    /\ matches = <<>>
    /\ mIdx = 1
    /\ out = <<>>
    /\ pending = 0

Init ==
    /\ FnIdle
    /\ StaticIdle
    /\ LiveInputs(Strings(MaxLen)) \/ ScenarioInputs \/ SelectionInputs
    /\ pc = "scan"
    /\ rIdx = 1
    /\ kIdx = 1
    /\ lastIndex = 0
    /\ i = visibleRanges[1].from
    /\ ds = <<>>
    /\ decorations = <<>>

\* --- the per-rule scanner: update() calling getDecorators rule by rule ---

range == visibleRanges[rIdx]
searchString == Substring(doc, range.from, range.to)

\* exec that gives null at a match overlapping a decoration already in ds
resultUnclaimed ==
    LET r == Exec(replacements[kIdx].match, searchString, lastIndex)
    IN  IF /\ r # NoMatch
           /\ \E k \in 1 .. Len(ds) :
                 /\ ds[k].from < r.index + range.from + Len(r.text)
                 /\ r.index + range.from < ds[k].to
        THEN NoMatch
        ELSE r

result == Exec(replacements[kIdx].match, searchString, lastIndex)

\* left and right of a match, from result.index and result[0]
MatchLeftInString(r, rng) == r.index
MatchLeft(r, rng) == r.index + rng.from
MatchRight(r, rng) == MatchLeft(r, rng) + Len(r.text)

\* exec gave null: getDecorators returns, its decorations are already in
\* ds; on to the next rule, the next range, or Decoration.set(ds, true)
ScanRuleDone ==
    /\ discipline = "perRule" /\ pc = "scan"
    /\ result = NoMatch
    /\ lastIndex' = 0
    /\ IF kIdx < Len(replacements)
       THEN /\ kIdx' = kIdx + 1
            /\ UNCHANGED <<rIdx, pc, decorations>>
       ELSE IF rIdx < Len(visibleRanges)
       THEN /\ kIdx' = 1
            /\ rIdx' = rIdx + 1
            /\ UNCHANGED <<pc, decorations>>
       ELSE /\ decorations' = SetSorted(ds)
            /\ pc' = "done"
            /\ UNCHANGED <<kIdx, rIdx>>
    /\ UNCHANGED <<inputs, i, ds, fnVars, staticVars>>

\* a match that outsideSelections rejects ends the scan of the rule
ScanSkipStops ==
    /\ discipline = "perRule" /\ pc = "scan"
    /\ result # NoMatch
    /\ ~outsideSelections(sels, MatchLeft(result, range), MatchRight(result, range))
    /\ lastIndex' = Len(searchString) + 1
    /\ UNCHANGED <<inputs, pc, rIdx, kIdx, i, ds, decorations, fnVars, staticVars>>

\* a match that outsideSelections rejects: next exec
ScanSkip ==
    /\ discipline = "perRule" /\ pc = "scan"
    /\ result # NoMatch
    /\ ~outsideSelections(sels, MatchLeft(result, range), MatchRight(result, range))
    /\ lastIndex' = LastIndexAfter(result)
    /\ UNCHANGED <<inputs, pc, rIdx, kIdx, i, ds, decorations, fnVars, staticVars>>

\* a match that passes: its decoration is pushed, next exec
ScanPush ==
    /\ discipline = "perRule" /\ pc = "scan"
    /\ result # NoMatch
    /\ outsideSelections(sels, MatchLeft(result, range), MatchRight(result, range))
    /\ Len(ds) < MaxDs
    /\ ds' = Append(ds, Replace(WidgetFor(replacements[kIdx], result.text),
                                MatchLeft(result, range),
                                MatchRight(result, range),
                                kIdx, result.text))
    /\ lastIndex' = LastIndexAfter(result)
    /\ UNCHANGED <<inputs, pc, rIdx, kIdx, i, decorations, fnVars, staticVars>>

\* --- the position scanner: update() calling getDecorator at each i ---

\* one pass of the body of for (i = r.from; i < r.to; i++)
PosVisit ==
    /\ discipline = "position" /\ pc = "scan"
    /\ i < range.to
    /\ LET d == FirstDecorator(replacements, 1, sels, doc, i)
       IN  IF d # None
           THEN /\ Len(ds) < MaxDs
                /\ ds' = Append(ds, d)
                /\ i' = d.to + 1
           ELSE /\ ds' = ds
                /\ i' = i + 1
    /\ UNCHANGED <<inputs, pc, rIdx, kIdx, lastIndex, decorations, fnVars, staticVars>>

\* the range is done: the next range, or Decoration.set(ds), which throws
\* when ds is not in order
PosRangeDone ==
    /\ discipline = "position" /\ pc = "scan"
    /\ i >= range.to
    /\ IF rIdx < Len(visibleRanges)
       THEN /\ rIdx' = rIdx + 1
            /\ i' = visibleRanges[rIdx + 1].from
            /\ UNCHANGED <<pc, decorations>>
       ELSE /\ pc' = IF Ordered(ds) THEN "done" ELSE "threw"
            /\ decorations' = IF Ordered(ds) THEN ds ELSE decorations
            /\ UNCHANGED <<rIdx, i>>
    /\ UNCHANGED <<inputs, kIdx, lastIndex, ds, fnVars, staticVars>>

Next ==
    \/ ScanRuleDone
    \/ ScanSkip
    \/ ScanPush
    \/ PosVisit
    \/ PosRangeDone

Spec == Init /\ [][Next]_vars

(***************************************************************************)
(* The pure functions on their own: outsideSelections on any list of       *)
(* selection ranges and any candidate span, getReplacement on any          *)
(* GeneralPatternMatcher configuration and any matched string.             *)
(***************************************************************************)
FnAlphabet == {"p", "q"}

FnStrings(n) == UNION {[1 .. k -> FnAlphabet] : k \in 0 .. n}

FnSelectionLists == UNION {[1 .. k -> Intervals(MaxLen)] : k \in 0 .. MaxSels}

FnRules ==
    {GeneralPatternMatcher(Lit(<<>>), <<>>, <<>>, Edge(lt, lr), Edge(rt, rr), keep) :
        lt \in {<<>>, <<"[">>}, rt \in {<<>>, <<"]">>},
        lr \in 0 .. MaxTrim, rr \in 0 .. MaxTrim, keep \in BOOLEAN}

\* Formatter rules for getDecorator on its own: the two of the configured
\* list and two literal ones, with and without an element
FnFormatters ==
    {Formatter(Lit(T_TODO), << <<T_style, T_red>> >>, <<>>),
     Formatter(EntityPat, <<>>, T_span),
     Formatter(Lit(<<"-">>), <<>>, <<>>),
     Formatter(Lit(<<"x", "-">>), <<>>, T_u)}

D_todo == <<"T","O","D","O"," ","f","i","x"," ","t","h","i","s">>
D_entity == <<"a","&","l","t",";","b">>

\* the documents getDecorator is called on
FnDocs == Strings(MaxLen) \cup {D_todo, D_entity}

LiveIdle ==
    /\ discipline = "none"
    /\ doc = <<>>
    /\ sels = <<>>
    /\ visibleRanges = <<>>
    /\ replacements = <<>>
    /\ pc = "idle"
    /\ rIdx = 1
    /\ kIdx = 1
    /\ lastIndex = 0
    /\ i = 0
    /\ ds = <<>>
    /\ decorations = <<>>

FnInit ==
    /\ LiveIdle
    /\ StaticIdle
    /\ fnPc = "start"
    /\ fnOutside = FALSE
    /\ fnText = <<>>
    /\ fnDec = None
    /\ \/ /\ fnSr \in FnSelectionLists
          /\ fnLeft \in 0 .. MaxLen
          /\ fnRight \in fnLeft .. MaxLen
          /\ fnRule = StarRule
          /\ fnMatch = <<>>
       \/ /\ fnSr = <<[from |-> 2, to |-> 7]>>
          /\ fnLeft = 2
          /\ fnRight = 7
          /\ fnRule = StarRule
          /\ fnMatch = <<>>
       \/ /\ fnSr = <<>>
          /\ fnLeft = 0
          /\ fnRight = 0
          /\ fnRule \in FnRules
          /\ fnMatch \in FnStrings(MaxLen)
       \/ /\ fnRule \in FnFormatters
          /\ fnMatch \in FnDocs
          /\ fnLeft \in 0 .. (Len(fnMatch) - 1)
          /\ fnRight = 0
          /\ fnSr \in SelectionLists(Len(fnMatch))

CallOutsideSelections ==
    /\ fnPc = "start"
    /\ fnRule = StarRule
    /\ fnOutside' = outsideSelections(fnSr, fnLeft, fnRight)
    /\ fnPc' = "guarded"
    /\ UNCHANGED <<liveVars, staticVars, fnSr, fnLeft, fnRight, fnRule, fnMatch,
                   fnText, fnDec>>

CallGetReplacement ==
    /\ fnPc = "start"
    /\ fnRule.cls = "GeneralPatternMatcher"
    /\ fnRule # StarRule
    /\ fnText' = getReplacement(fnRule, fnMatch)
    /\ fnPc' = "replaced"
    /\ UNCHANGED <<liveVars, staticVars, fnSr, fnLeft, fnRight, fnRule, fnMatch,
                   fnOutside, fnDec>>

\* Formatter.getDecorator(state, doc, index) with doc in fnMatch and index
\* in fnLeft
CallFormatterGetDecorator ==
    /\ fnPc = "start"
    /\ fnRule.cls = "Formatter"
    /\ fnDec' = Formatter_getDecorator(fnRule, fnSr, fnMatch, fnLeft, 1)
    /\ fnPc' = "decorated"
    /\ UNCHANGED <<liveVars, staticVars, fnSr, fnLeft, fnRight, fnRule, fnMatch,
                   fnOutside, fnText>>

FnNext ==
    \/ CallOutsideSelections
    \/ CallGetReplacement
    \/ CallFormatterGetDecorator

FnSpec == FnInit /\ [][FnNext]_vars

(***************************************************************************)
(* Properties of the selection guard and of getReplacement.                *)
(***************************************************************************)
\* the decorations collected by the per-rule scanner
PerRuleDs == IF discipline = "perRule" THEN ds ELSE <<>>

\* C1: in live mode no decoration is emitted for a match span [left, right)
\* that some selection [s.from, s.to) fully covers (s.from <= left and
\* right <= s.to), selections strictly larger than the span included.
\* (Stated for the spans that hold at least one character.)
C1_CoveredSpanNotDecorated ==
    \A k \in 1 .. Len(PerRuleDs) : \A n \in 1 .. Len(sels) :
        ds[k].from < ds[k].to =>
            ~(sels[n].from <= ds[k].from /\ ds[k].to <= sels[n].to)

\* the two tests of the guard, stated on one selection range
EndsWithin(s, left, right) == left <= s.to /\ s.to <= right
LiesWithin(s, left, right) == s.from >= left /\ s.to <= right

\* C2: outsideSelections returns false exactly when some selection s has
\* left <= s.to <= right or has s.from >= left and s.to <= right; so a cursor
\* exactly at left or at right is rejected, and so is a selection equal to
\* the candidate.
C2_GuardExact ==
    fnPc = "guarded" =>
        /\ fnOutside <=>
              ~\E n \in 1 .. Len(fnSr) :
                  \/ EndsWithin(fnSr[n], fnLeft, fnRight)
                  \/ LiesWithin(fnSr[n], fnLeft, fnRight)
        /\ (\E n \in 1 .. Len(fnSr) :
               /\ fnSr[n].from = fnSr[n].to
               /\ fnSr[n].to \in {fnLeft, fnRight}) => ~fnOutside
        /\ (\E n \in 1 .. Len(fnSr) :
               fnSr[n] = [from |-> fnLeft, to |-> fnRight]) => ~fnOutside

\* C2's case: the selection [2,7) against the candidate [2,7) was rejected
C2_Witness ==
    /\ fnPc = "guarded"
    /\ fnSr = <<[from |-> 2, to |-> 7]>>
    /\ fnLeft = 2 /\ fnRight = 7
    /\ ~fnOutside

\* m[a : b]: the characters of m at offsets a .. b-1, none when a >= b
PySlice(m, a, b) ==
    [k \in 1 .. (IF a >= b THEN 0 ELSE Min(b, Len(m)) - a) |-> m[a + k]]

\* C3: with keepMatch = true, getReplacement(m) is
\* left.txt + m[lt : len(m)-rt] + right.txt for all trim counts lt, rt >= 0,
\* the slice being empty when lt >= len(m)-rt (so also when lt + rt > len(m)).
C3_KeptMatchTrimmed ==
    (fnPc = "replaced" /\ fnRule.keepMatch) =>
        fnText = fnRule.left.txt
                    \o PySlice(fnMatch, fnRule.left.rmv,
                               Len(fnMatch) - fnRule.right.rmv)
                    \o fnRule.right.txt

\* C4: with keepMatch = false, getReplacement returns left.txt + right.txt
\* whatever was matched and whatever the trim counts are: any other matched
\* string gives the same text.
C4_InsertsOnly ==
    (fnPc = "replaced" /\ ~fnRule.keepMatch) =>
        /\ fnText = fnRule.left.txt \o fnRule.right.txt
        /\ \A m \in FnStrings(MaxLen) : getReplacement(fnRule, m) = fnText

\* C4's case: a non-empty match, non-empty inserts and trims, match dropped
C4_Witness ==
    /\ fnPc = "replaced"
    /\ ~fnRule.keepMatch
    /\ Len(fnMatch) = MaxLen
    /\ fnRule.left.txt # <<>> /\ fnRule.right.txt # <<>>
    /\ fnRule.left.rmv > 0 /\ fnRule.right.rmv > 0
    /\ fnText = <<"[", "]">>

(***************************************************************************)
(* Properties of the live-mode scan.                                       *)
(***************************************************************************)
\* C5: a scan makes progress on every iteration, also after a zero-length
\* match: each pass of the match loop of getDecorators that found a match
\* leaves lastIndex larger than it was, and each pass of the position loop
\* of update leaves i larger than it was.
C5_EveryIterationAdvances ==
    [][/\ (discipline = "perRule" /\ pc = "scan" /\ result # NoMatch)
            => lastIndex' > lastIndex
       /\ (discipline = "position" /\ pc = "scan" /\ i < range.to)
            => i' > i]_vars

\* C6: a decoration of a GeneralPatternMatcher spans exactly the matched
\* text: left is range.from plus the match index, right is left plus the
\* length of the match, and doc[left..right) is the match, also when the
\* rendered content is trimmed.  The scanned text "a -hello- b" gives, with
\* the underline rule, the one decoration [2,9) with content "hello" in a u
\* element; the scanned text "red(x+1)" gives, with the red rule, the one
\* decoration [0,8) with content "x+1".
C6_SpanIsWholeMatch ==
    /\ \A k \in 1 .. Len(PerRuleDs) :
          LET d == ds[k]
          IN  replacements[d.by].cls = "GeneralPatternMatcher" =>
                /\ d.to = d.from + Len(d.text)
                /\ d.to <= Len(doc)
                /\ Slice(doc, d.from, d.to) = d.text
                /\ \E n \in 1 .. Len(visibleRanges) :
                      LET r == visibleRanges[n]
                          str == Slice(doc, r.from, r.to)
                      IN  /\ r.from <= d.from /\ d.to <= r.to
                          /\ MatchLen(replacements[d.by].match, str,
                                      d.from - r.from) = Len(d.text)
    /\ (/\ discipline = "perRule" /\ pc = "done"
        /\ doc = D_hello
        /\ replacements \in {<<UnderlineRule>>, PerRuleReplacements}
        /\ ~\E n \in 1 .. Len(sels) : EndsWithin(sels[n], 2, 9))
       => /\ Len(decorations) = 1
          /\ decorations[1].from = 2 /\ decorations[1].to = 9
          /\ decorations[1].widget =
                HTMLWidget(<<"h","e","l","l","o">>, T_u, <<>>)
    /\ (/\ discipline = "perRule" /\ pc = "done"
        /\ Len(visibleRanges) = 1
        /\ Substring(doc, visibleRanges[1].from, visibleRanges[1].to) = D_red
        /\ visibleRanges[1].from = 0
        /\ replacements \in {<<RedRule>>, PerRuleReplacements}
        /\ ~\E n \in 1 .. Len(sels) : EndsWithin(sels[n], 0, 8))
       => /\ Len(decorations) = 1
          /\ decorations[1].from = 0 /\ decorations[1].to = 8
          /\ decorations[1].widget =
                HTMLWidget(<<"x","+","1">>, T_span, << <<T_style, T_red>> >>)

\* C6's cases: both scenarios ran to their end, and a trimmed match found in
\* a range that does not start at 0 was decorated
C6_Witness ==
    /\ discipline = "perRule" /\ pc = "done"
    /\ \/ doc = D_hello /\ replacements = <<UnderlineRule>>
       \/ /\ Substring(doc, visibleRanges[1].from, visibleRanges[1].to) = D_red
          /\ replacements = <<RedRule>>
    /\ Len(decorations) = 1

\* C9: every decoration emitted by any rule, for any document, visible
\* ranges inside the document and selections, has
\* 0 <= left <= right <= length(document).
C9_SpansInsideDocument ==
    \A k \in 1 .. Len(ds) :
        /\ 0 <= ds[k].from
        /\ ds[k].from <= ds[k].to
        /\ ds[k].to <= Len(doc)

\* C9's case: a MathVariables decoration that ends at the end of the
\* document, found after the first position
C9_Witness ==
    \E k \in 1 .. Len(ds) :
        /\ discipline = "position"
        /\ replacements[ds[k].by].cls = "MathVariables"
        /\ ds[k].to = Len(doc)
        /\ ds[k].from > 0

\* what update() hands to the editor: the per-rule scanner hands ds over to
\* be sorted, the position scanner hands ds over as it is
HandedOver ==
    IF discipline = "perRule" THEN decorations ELSE ds

\* C10: the decoration sequence a live-mode scan hands over is ordered by
\* ascending left offset, and decorations with equal left offset keep their
\* discovery order.
C10_AscendingLeftStable ==
    pc \in {"done", "threw"} =>
        /\ \A k \in 1 .. (Len(HandedOver) - 1) :
              HandedOver[k].from <= HandedOver[k + 1].from
        /\ \A k \in 1 .. (Len(HandedOver) - 1) :
              HandedOver[k].from = HandedOver[k + 1].from =>
                  \E a \in 1 .. Len(ds) : \E b \in (a + 1) .. Len(ds) :
                      ds[a] = HandedOver[k] /\ ds[b] = HandedOver[k + 1]

(***************************************************************************)
(* Static mode: the markdown post-processor runs modifyHtmlElem of every   *)
(* rule, in order, on the element.                                         *)
(***************************************************************************)
\* the matches a global expression p has in s from offset `last` on, as
\* String.prototype.replaceAll collects them: after an empty match the
\* search resumes one character further
RECURSIVE MatchesFrom(_, _, _)
MatchesFrom(p, s, last) ==
    LET r == Exec(p, s, last)
    IN  IF r = NoMatch THEN <<>>
        ELSE <<r>> \o MatchesFrom(p, s,
                        IF r.text = <<>> THEN r.index + 1
                        ELSE LastIndexAfter(r))

\* s with the matches ms[k ..] replaced by reps[k ..], copying from offset at
RECURSIVE Spliced(_, _, _, _, _)
Spliced(s, ms, reps, k, at) ==
    IF k > Len(ms) THEN Slice(s, at, Len(s))
    ELSE Slice(s, at, ms[k].index) \o reps[k]
            \o Spliced(s, ms, reps, k + 1, LastIndexAfter(ms[k]))

\* what parsing markup and writing it out again does to the character
\* references the rule lists use: &mdash; and &ndash; become the characters
RECURSIVE DecodeFrom(_, _)
DecodeFrom(s, at) ==
    IF at >= Len(s) THEN <<>>
    ELSE IF StartsWithAt(s, at, T_mdash)
         THEN <<"EMDASH">> \o DecodeFrom(s, at + Len(T_mdash))
    ELSE IF StartsWithAt(s, at, T_ndash)
         THEN <<"ENDASH">> \o DecodeFrom(s, at + Len(T_ndash))
    ELSE <<At(s, at)>> \o DecodeFrom(s, at + 1)

Decode(s) == DecodeFrom(s, 0)

\* the attributes of an element as outerHTML writes them
RECURSIVE AttrText(_)
AttrText(attrs) ==
    IF attrs = <<>> THEN <<>>
    ELSE <<" ">> \o Head(attrs)[1] \o <<"=", "\"">> \o Head(attrs)[2]
            \o <<"\"">> \o AttrText(Tail(attrs))

\* HTMLWidget.toDOM(null).outerHTML: the element, its innerHTML set to the
\* content, its attributes set
OuterHTML(w) ==
    <<"<">> \o w.elem \o AttrText(w.attrs) \o <<">">> \o Decode(w.content)
        \o <<"<", "/">> \o w.elem \o <<">">>

\* HTMLWidget.toDOM(null).outerText: the text of the element
OuterText(w) == Decode(w.content)

\* the outerHTML of what renderMath(content, false) returns; the external
\* engine's output is stood for by a math element that holds the source
MathHTML(content) ==
    <<"<","m","a","t","h",">">> \o content \o <<"<","/","m","a","t","h",">">>

\* the replacement modifyHtmlElem of a rule gives for one matched text
ReplacementFor(rule, text) ==
    IF rule.cls = "GeneralPatternMatcher"
    THEN OuterHTML(getWidget(rule, getReplacement(rule, text)))
    ELSE OuterText(HTMLWidget(rule.to, T_span, <<>>))

\* replaceAll that replaces the first match only
ReplaceFirst(rule, s) ==
    LET ms == MatchesFrom(rule.match, s, 0)
        first == IF ms = <<>> THEN <<>> ELSE <<ms[1]>>
    IN  Spliced(s, first,
                [k \in 1 .. Len(first) |-> ReplacementFor(rule, first[k].text)],
                1, 0)

\* elem.innerHTML.replaceAll(global_pattern, ...) of GeneralPatternMatcher
\* and ReplacementPattern
ReplaceAll(rule, s) ==
    LET ms == MatchesFrom(rule.match, s, 0)
    IN  Spliced(s, ms,
                [k \in 1 .. Len(ms) |-> ReplacementFor(rule, ms[k].text)],
                1, 0)

\* A rule whose replacement text is matched by the underline rule
DashedRule == ReplacementPattern(Lit(<<"-","-">>), <<"-","x","-">>)

D_ab == <<"a","-","-","b">>
D_xx == <<"x"," ","x"," ">>
D_twice == <<"-","-","b","-","-">>

StaticLists ==
    {PerRuleReplacements, <<LiteralRule>>, <<DashedRule, UnderlineRule>>,
     <<Texify(VarPat), NdashRule>>}

StaticInit ==
    /\ FnIdle
    /\ discipline = "static"
    /\ doc = <<>>
    /\ sels = <<>>
    /\ visibleRanges = <<>>
    /\ replacements \in StaticLists
    /\ pc = "rule"
    /\ rIdx = 1
    /\ kIdx = 1
    /\ lastIndex = 0
    /\ i = 0
    /\ ds = <<>>
    /\ decorations = <<>>
    /\ original \in Strings(MaxLen) \cup {D_ab, D_xx, D_twice}
    /\ innerHTML = original
    /\ applied = <<>>
    /\ matches = <<>>
    /\ mIdx = 1
    /\ out = <<>>
    /\ pending = 0

\* modifyHtmlElem returned: the element holds `written`; the loop of the
\* post-processor goes on to the next rule
RuleReturns(written) ==
    /\ innerHTML' = Decode(written)
    /\ applied' = Append(applied, [rule |-> kIdx, read |-> innerHTML,
                                   wrote |-> Decode(written)])
    /\ kIdx' = kIdx + 1
    /\ pc' = IF kIdx < Len(replacements) THEN "rule" ELSE "done"

\* modifyHtmlElem of a GeneralPatternMatcher or a ReplacementPattern
ModifyHtmlElem ==
    /\ discipline = "static" /\ pc = "rule"
    /\ replacements[kIdx].cls # "Texify"
    /\ RuleReturns(ReplaceAll(replacements[kIdx], innerHTML))
    /\ UNCHANGED <<inputs, rIdx, lastIndex, i, ds, decorations, fnVars,
                   original, matches, mIdx, out, pending>>

\* Texify.modifyHtmlElem: replaceAll collects the matches; with none the
\* element is written back as it is, otherwise the callbacks run
TexifyModifyHtmlElem ==
    /\ discipline = "static" /\ pc = "rule"
    /\ replacements[kIdx].cls = "Texify"
    /\ LET ms == MatchesFrom(replacements[kIdx].match, innerHTML, 0)
       IN  IF ms = <<>>
           THEN /\ RuleReturns(innerHTML)
                /\ UNCHANGED <<matches, mIdx, out>>
           ELSE /\ matches' = ms
                /\ mIdx' = 1
                /\ out' = <<>>
                /\ pc' = "render"
                /\ UNCHANGED <<innerHTML, applied, kIdx>>
    /\ UNCHANGED <<inputs, rIdx, lastIndex, i, ds, decorations, fnVars,
                   original, pending>>

\* LatexWidget.toDOM: renderMath(this.content, false) returns an element
RenderMath ==
    /\ discipline = "static" /\ pc = "render"
    /\ pending' = pending + 1
    /\ pc' = "finish"
    /\ UNCHANGED <<inputs, rIdx, kIdx, lastIndex, i, ds, decorations, fnVars,
                   original, innerHTML, applied, matches, mIdx, out>>

\* LatexWidget.toDOM: the call of renderMath throws; finishRenderMath() on
\* the next line is not reached, and nothing on the way up to the
\* post-processor catches, so the post-processor ends there
RenderMathThrows ==
    /\ discipline = "static" /\ pc = "render"
    /\ pending' = pending + 1
    /\ pc' = "aborted"
    /\ UNCHANGED <<inputs, rIdx, kIdx, lastIndex, i, ds, decorations, fnVars,
                   original, innerHTML, applied, matches, mIdx, out>>

\* LatexWidget.toDOM: finishRenderMath(), the element is returned and its
\* outerHTML is the replacement; after the last match the element is written
FinishRenderMath ==
    /\ discipline = "static" /\ pc = "finish"
    /\ pending' = 0
    /\ LET reps == Append(out, MathHTML(matches[mIdx].text))
       IN  IF mIdx < Len(matches)
           THEN /\ out' = reps
                /\ mIdx' = mIdx + 1
                /\ pc' = "render"
                /\ UNCHANGED <<innerHTML, applied, kIdx, matches>>
           ELSE /\ RuleReturns(Spliced(innerHTML, matches, reps, 1, 0))
                /\ out' = <<>>
                /\ matches' = <<>>
                /\ mIdx' = 1
    /\ UNCHANGED <<inputs, rIdx, lastIndex, i, ds, decorations, fnVars,
                   original>>

StaticNext ==
    \/ ModifyHtmlElem
    \/ TexifyModifyHtmlElem
    \/ RenderMath
    \/ RenderMathThrows
    \/ FinishRenderMath

StaticSpec == StaticInit /\ [][StaticNext]_vars

(***************************************************************************)
(* Properties of static mode.                                              *)
(***************************************************************************)
\* the offsets of s at which the literal p occurs
Occurrences(s, p) == {j \in 0 .. Len(s) : StartsWithAt(s, j, p)}

\* s with every EMDASH character written as two dashes again
RECURSIVE Undashed(_)
Undashed(s) ==
    IF s = <<>> THEN <<>>
    ELSE (IF Head(s) = "EMDASH" THEN <<"-", "-">> ELSE <<Head(s)>>)
            \o Undashed(Tail(s))

\* C7: static mode applies the rules in configured order, each rule on the
\* whole current fragment before the next rule runs, so rule k reads what
\* rules 1..k-1 wrote, text inserted by their replacements included; with
\* the single literal rule "--" -> "&mdash;" every occurrence of "--" is
\* replaced, and "a--b" becomes the fragment a&mdash;b.
C7_RulesChainInOrder ==
    discipline = "static" =>
        /\ \A k \in 1 .. Len(applied) :
              /\ applied[k].rule = k
              /\ applied[k].read =
                    IF k = 1 THEN original ELSE applied[k - 1].wrote
        /\ (applied # <<>> /\ pc \in {"rule", "done"}) =>
              innerHTML = applied[Len(applied)].wrote
        /\ (pc = "done" /\ replacements = <<LiteralRule>>) =>
              /\ Occurrences(innerHTML, <<"-", "-">>) = {}
              /\ Undashed(innerHTML) = original
        /\ (pc = "done" /\ replacements = <<LiteralRule>> /\ original = D_ab) =>
              innerHTML = Decode(<<"a">> \o T_mdash \o <<"b">>)
        /\ (pc = "done" /\ replacements = <<DashedRule, UnderlineRule>>
                /\ original = <<"-", "-">>) =>
              innerHTML = <<"<","u",">","x","<","/","u",">">>

\* C7's cases: "a--b" went through the literal rule, and the underline rule
\* matched the text the rule before it had inserted
C7_Witness ==
    /\ discipline = "static" /\ pc = "done"
    /\ \/ /\ replacements = <<LiteralRule>>
          /\ original = D_ab
          /\ innerHTML = <<"a", "EMDASH", "b">>
       \/ /\ replacements = <<DashedRule, UnderlineRule>>
          /\ original = <<"-", "-">>
          /\ applied[2].read = <<"-", "x", "-">>

\* C8: a failure of the typesetting call for one match stays local to that
\* match: all remaining matches and all remaining rules are still
\* processed, so the post-processor never ends before every rule of the
\* list has run (the failed match being shown as its raw text).
C8_RenderFailureStaysLocal ==
    (discipline = "static" /\ pc \in {"done", "aborted"}) =>
        Len(applied) = Len(replacements)

(***************************************************************************)
(* Properties of the position scanner's rules and of the scans.            *)
(***************************************************************************)
\* the n characters of d at offset at are a text the pattern p matches
MatchesAt(p, d, at, n) ==
    /\ at + n <= Len(d)
    /\ CASE p.kind = "lit" -> Slice(d, at, at + n) = p.a
         [] p.kind = "entity" ->
                /\ n >= 3
                /\ At(d, at) = "&"
                /\ At(d, at + n - 1) = ";"
                /\ \A j \in (at + 1) .. (at + n - 2) : isWordChar(At(d, j))
         [] OTHER -> FALSE

C12_EveryDecorationPassedGuard ==
    \A k \in 1 .. Len(ds) : \A n \in 1 .. Len(sels) :
        ~EndsWithin(sels[n], ds[k].from, ds[k].to)

\* the decoration the position scanner accepts at its position i, or None
Accepted == FirstDecorator(replacements, 1, sels, doc, i)

\* C13: in the position scanner, after a decoration d is accepted at
\* position i the next position tested is d.to, the first character after
\* the match, so no position outside an accepted decoration is skipped:
\* scanning "----" decorates both occurrences of "--".
C13_ResumesRightAfterMatch ==
    /\ [][(discipline = "position" /\ pc = "scan" /\ i < range.to
              /\ Accepted # None)
            => i' = Accepted.to]_vars
    /\ []((/\ discipline = "position" /\ pc \in {"done", "threw"}
           /\ doc = D_dashes
           /\ visibleRanges = <<[from |-> 0, to |-> 4]>>
           /\ replacements = PositionReplacements)
          => \E a, b \in 1 .. Len(ds) :
                /\ ds[a].from = 0 /\ ds[a].to = 2
                /\ ds[b].from = 2 /\ ds[b].to = 4)

\* the decorations collected by the position scanner
PositionDs == IF discipline = "position" THEN ds ELSE <<>>

\* C14: in the position scanner no two decorations of one scan overlap: a
\* decoration discovered before another ends at or before the offset where
\* the other begins, MathVariables decorations that extend left of the index
\* where they were found included.
C14_NoOverlapInPositionScan ==
    \A a \in 1 .. Len(PositionDs) : \A b \in (a + 1) .. Len(PositionDs) :
        ds[a].to <= ds[b].from

\* what the rule at place `by` returns when it is run alone on the range
\* rng with the selections of the state, from lastIndex `last` on; fuel
\* bounds the number of matches looked at
RECURSIVE AloneFrom(_, _, _, _, _)
AloneFrom(rule, by, rng, last, fuel) ==
    LET str == Substring(doc, rng.from, rng.to)
        r == Exec(rule.match, str, last)
        left == r.index + rng.from
        right == left + Len(r.text)
    IN  IF r = NoMatch \/ fuel = 0 THEN <<>>
        ELSE (IF outsideSelections(sels, left, right)
              THEN <<Replace(WidgetFor(rule, r.text), left, right, by, r.text)>>
              ELSE <<>>)
                \o AloneFrom(rule, by, rng, LastIndexAfter(r), fuel - 1)

\* the results of the rules k .. of the list on the range rng, one after
\* the other
RECURSIVE AloneRules(_, _)
AloneRules(k, rng) ==
    IF k > Len(replacements) THEN <<>>
    ELSE AloneFrom(replacements[k], k, rng, 0, Len(doc) + 1)
            \o AloneRules(k + 1, rng)

\* the same for the visible ranges n ..
RECURSIVE AloneRanges(_)
AloneRanges(n) ==
    IF n > Len(visibleRanges) THEN <<>>
    ELSE AloneRules(1, visibleRanges[n]) \o AloneRanges(n + 1)

\* C15: in the per-rule scanner the result for a range is the
\* concatenation, in rule order, of what each rule returns when run alone on
\* that range with the same selections; a match of one rule never removes or
\* changes a match of another rule, so in "---" the /---/ rule's [0,3) and
\* the /--/ rule's [0,2) both appear.
C15_RulesRunIndependently ==
    (discipline = "perRule" /\ pc = "done") =>
        /\ ds = AloneRanges(1)
        /\ (/\ doc = D_three
            /\ replacements = PerRuleReplacements
            /\ visibleRanges[1].from = 0 /\ visibleRanges[1].to >= 3
            /\ \A n \in 1 .. Len(sels) : sels[n].to > 3) =>
              \E a, b \in 1 .. Len(ds) :
                  /\ a < b
                  /\ ds[a].by = 1 /\ ds[a].from = 0 /\ ds[a].to = 3
                  /\ ds[b].by = 2 /\ ds[b].from = 0 /\ ds[b].to = 2

\* C15's case: the scan of "--- " with the configured list ended with the
\* two overlapping decorations
C15_Witness ==
    /\ discipline = "perRule" /\ pc = "done"
    /\ doc = D_three
    /\ replacements = PerRuleReplacements
    /\ ds[1].by = 1 /\ ds[1].to = 3
    /\ ds[2].by = 2 /\ ds[2].to = 2

\* the decoration ds[a] was made by rule k in the visible range rng
MadeIn(a, k, rng) ==
    /\ ds[a].by = k
    /\ rng.from <= ds[a].from /\ ds[a].to <= rng.to

\* C16: a per-rule global scan reports every non-overlapping occurrence of
\* the pattern in the range, leftmost first and in increasing offset order:
\* an occurrence is reported, or rejected by the guard, or begins inside an
\* earlier occurrence that was reported or rejected; what is reported is an
\* occurrence.  A rejected occurrence does not stop the scan: in "---- " with
\* the cursor at 1 the /--/ rule still reports [2,4).
C16_EveryOccurrenceReported ==
    (discipline = "perRule" /\ pc = "done") =>
        /\ \A n \in 1 .. Len(visibleRanges) : \A k \in 1 .. Len(replacements) :
              LET rng == visibleRanges[n]
                  str == Substring(doc, rng.from, rng.to)
                  p == replacements[k].match
                  Reported(j) ==
                      \E a \in 1 .. Len(ds) :
                          /\ MadeIn(a, k, rng)
                          /\ ds[a].from = rng.from + j
                          /\ ds[a].to = rng.from + j + MatchLen(p, str, j)
                  Rejected(j) ==
                      ~outsideSelections(sels, rng.from + j,
                                         rng.from + j + MatchLen(p, str, j))
              IN  /\ \A j \in 0 .. Len(str) :
                        MatchLen(p, str, j) >= 0 =>
                            \/ Reported(j)
                            \/ Rejected(j)
                            \/ \E e \in 0 .. (j - 1) :
                                  /\ MatchLen(p, str, e) > j - e
                                  /\ Reported(e) \/ Rejected(e)
                  /\ \A a \in 1 .. Len(ds) :
                        MadeIn(a, k, rng) =>
                            MatchLen(p, str, ds[a].from - rng.from)
                                = ds[a].to - ds[a].from
                  /\ \A a \in 1 .. Len(ds) : \A b \in (a + 1) .. Len(ds) :
                        (MadeIn(a, k, rng) /\ MadeIn(b, k, rng)) =>
                            ds[a].to <= ds[b].from
        /\ (/\ doc = D_dashes
            /\ sels = <<[from |-> 1, to |-> 1]>>
            /\ visibleRanges[1].from = 0 /\ visibleRanges[1].to >= 4
            /\ replacements = PerRuleReplacements) =>
              /\ \E a \in 1 .. Len(ds) :
                    ds[a].by = 2 /\ ds[a].from = 2 /\ ds[a].to = 4
              /\ ~\E a \in 1 .. Len(ds) : ds[a].from = 0

\* C16's cases: two occurrences reported by one rule, and a rejected first
\* occurrence followed by a reported second one
C16_Witness ==
    /\ discipline = "perRule" /\ pc = "done"
    /\ doc = D_dashes
    /\ \/ /\ sels = <<[from |-> 1, to |-> 1]>>
          /\ replacements = PerRuleReplacements
          /\ \E a \in 1 .. Len(ds) : ds[a].by = 2 /\ ds[a].from = 2
       \/ /\ replacements = <<LiteralRule, Texify(VarPat)>>
          /\ Len(ds) = 2
          /\ ds[1].from = 0 /\ ds[2].from = 2

\* C17: every call of renderMath is followed by a call of finishRenderMath
\* before the next call of renderMath starts and before the node is
\* returned: at most one render is ever pending, and none is pending when
\* the next render starts or when a rendering has ended, also when the call
\* of renderMath failed.
C17_RenderAlwaysFinalized ==
    discipline = "static" =>
        /\ pending <= 1
        /\ pc \in {"rule", "render", "done", "aborted"} => pending = 0

=============================================================================
